---------------------------- MODULE Spec2Model ----------------------------
(***************************************************************************)
(* rec-sizing: the pre-delivery collective (pool) MILP entry point         *)
(* run_pre_collective_pool_milp (src/rec_sizing/optimization_functions.py) *)
(* and the clustering example structures                                   *)
(* (src/rec_sizing/clustering/structures/I_O_clustering.py).               *)
(*                                                                         *)
(* Units.  Energies are integers (tenths of a kWh in the clustering        *)
(* fixtures), tariffs are integers (cents per kWh), soc_min, soc_max,      *)
(* eff_bc and eff_bd are percentages, delta_t is a whole number of hours.  *)
(* The storage content is carried multiplied by 100 * eff_bd so that the   *)
(* recurrence content' = content + eff_bc*charge - discharge/eff_bd is     *)
(* exact in integers.                                                      *)
(*                                                                         *)
(* The class CollectiveMILPPool (constructor, solve_milp,                  *)
(* generate_outputs) is imported by the entry point but its file is not    *)
(* among the sources; its behaviour is modelled from the specification     *)
(* (sections 4.1 to 4.5) and from the entry point's docstring.             *)
(***************************************************************************)
EXTENDS Integers, Sequences, FiniteSets, TLC

VARIABLES
    pc,          \* position of the entry point: idle, entered, constructed, solved, extracted
    backpack,    \* the caller's backpack object of the call in progress (passed by reference)
    bp_id,       \* which backpack of the pool the caller passed
    milp,        \* the local variable "milp": the CollectiveMILPPool instance, or NoInstance
    results,     \* the local variable "results"
    outcome,     \* what the last completed call gave its caller: a return value or an exception
    calls,       \* number of completed calls
    first,       \* the first completed call: its backpack and what it gave
    solver_cfg,  \* the external solver's configuration (node limit), fixed for the process
    solver_log,  \* solver invocations of the call in progress, each with the status reported
    stages,      \* stages the call in progress has run, in order
    handed,      \* the variable/constraint set as it was handed to the solver
    pool         \* the backpacks callers may pass

vars == <<pc, backpack, bp_id, milp, results, outcome, calls, first,
          solver_cfg, solver_log, stages, handed, pool>>

-----------------------------------------------------------------------------
(* Bounds of the model *)

\* calls of the entry point in one behaviour
MaxCalls == 3
\* largest charge or discharge of one step the solver's grid enumerates
MaxFlow == 4

\* hours of a day: "for a 24h horizon, and a step of 15 minutes or 0.25 hours, the
\* length of the arrays must be 96"
HoursPerDay == 24

-----------------------------------------------------------------------------
(* Arithmetic helpers *)

Max(a, b) == IF a >= b THEN a ELSE b

Min(a, b) == IF a <= b THEN a ELSE b

MinOf(S) == CHOOSE x \in S : \A y \in S : x <= y

RECURSIVE SumSeq(_)
SumSeq(s) == IF Len(s) = 0 THEN 0 ELSE Head(s) + SumSeq(Tail(s))

RECURSIVE SumOver(_, _)
SumOver(f, D) ==
    IF D = {} THEN 0
    ELSE LET x == CHOOSE y \in D : TRUE IN f[x] + SumOver(f, D \ {x})

\* all sequences <<x1, ..., xn>> with xi \in choices[i]
RECURSIVE SeqProduct(_, _)
SeqProduct(choices, n) ==
    IF n = 0 THEN {<<>>}
    ELSE {Append(s, x) : s \in SeqProduct(choices, n - 1), x \in choices[n]}

\* all functions f on D with f[d] \in choices[d]
RECURSIVE FunProduct(_, _)
FunProduct(choices, D) ==
    IF D = {} THEN {<<>>}
    ELSE LET d == CHOOSE y \in D : TRUE
         IN {f @@ (d :> x) : f \in FunProduct(choices, D \ {d}), x \in choices[d]}

-----------------------------------------------------------------------------
(* The clustering example structures *)

CLUSTERING_INPUTS ==
  [nr_days |-> 2,
   delta_t |-> 1,
   nr_representative_days |-> 1,
   l_grid |->
      <<1, 2, 3, 4, 1, 2, 3, 4, 1, 2, 3, 4,
        1, 2, 3, 4, 1, 2, 3, 4, 1, 2, 3, 4,
        2, 3, 4, 5, 2, 3, 4, 5, 2, 3, 4, 5,
        2, 3, 4, 5, 2, 3, 4, 5, 2, 3, 4, 5>>,
   timeseries_data |->
   (
     "CPE#1" :> [
        e_g_factor |->
      <<0, 0, 0, 0, 0, 1, 2, 3, 4, 5, 6, 7,
        8, 7, 6, 5, 4, 3, 2, 1, 0, 0, 0, 0,
        0, 0, 0, 0, 0, 2, 3, 4, 5, 6, 7, 8,
        9, 8, 7, 6, 5, 4, 3, 2, 0, 0, 0, 0>>,
        e_c |->
      <<10, 20, 30, 40, 30, 20, 10, 20, 30, 40, 30, 20,
        10, 20, 30, 40, 30, 20, 10, 20, 30, 40, 30, 20,
        20, 30, 40, 50, 40, 30, 20, 30, 40, 50, 40, 30,
        20, 30, 40, 50, 40, 30, 20, 30, 40, 50, 40, 30>>,
        l_buy |->
      <<5, 5, 5, 5, 5, 5, 6, 6, 6, 6, 6, 6,
        5, 5, 5, 5, 5, 5, 6, 6, 6, 6, 6, 6,
        5, 5, 5, 5, 5, 5, 6, 6, 6, 6, 6, 6,
        5, 5, 5, 5, 5, 5, 6, 6, 6, 6, 6, 6>>,
        l_sell |->
      <<5, 5, 5, 5, 5, 5, 6, 6, 6, 6, 6, 6,
        5, 5, 5, 5, 5, 5, 6, 6, 6, 6, 6, 6,
        5, 5, 5, 5, 5, 5, 6, 6, 6, 6, 6, 6,
        5, 5, 5, 5, 5, 5, 6, 6, 6, 6, 6, 6>>]
     @@
     "CPE#2" :> [
        e_g_factor |->
      <<0, 0, 0, 0, 0, 0, 0, 0, 0, 0, 0, 0,
        0, 0, 0, 0, 0, 0, 0, 0, 0, 0, 0, 0,
        0, 0, 0, 0, 0, 0, 0, 0, 0, 0, 0, 0,
        0, 0, 0, 0, 0, 0, 0, 0, 0, 0, 0, 0>>,
        e_c |->
      <<1, 2, 3, 4, 3, 2, 1, 2, 3, 4, 3, 2,
        1, 2, 3, 4, 3, 2, 1, 2, 3, 4, 3, 2,
        2, 3, 4, 5, 4, 3, 2, 3, 4, 5, 4, 3,
        2, 3, 4, 5, 4, 3, 2, 3, 4, 5, 4, 3>>,
        l_buy |->
      <<5, 5, 5, 5, 5, 5, 6, 6, 6, 6, 6, 6,
        5, 5, 5, 5, 5, 5, 6, 6, 6, 6, 6, 6,
        6, 6, 6, 6, 6, 6, 5, 5, 5, 5, 5, 5,
        6, 6, 6, 6, 6, 6, 5, 5, 5, 5, 5, 5>>,
        l_sell |->
      <<5, 5, 5, 5, 5, 5, 6, 6, 6, 6, 6, 6,
        5, 5, 5, 5, 5, 5, 6, 6, 6, 6, 6, 6,
        6, 6, 6, 6, 6, 6, 5, 5, 5, 5, 5, 5,
        6, 6, 6, 6, 6, 6, 5, 5, 5, 5, 5, 5>>]
     @@
     "CPE#3" :> [
        e_g_factor |->
      <<0, 0, 0, 0, 0, 1, 2, 3, 4, 5, 6, 7,
        8, 7, 6, 5, 4, 3, 2, 1, 0, 0, 0, 0,
        0, 0, 0, 0, 0, 2, 3, 4, 5, 6, 7, 8,
        9, 8, 7, 6, 5, 4, 3, 2, 0, 0, 0, 0>>,
        e_c |->
      <<10, 20, 30, 40, 30, 20, 10, 20, 30, 40, 30, 20,
        10, 20, 30, 40, 30, 20, 10, 20, 30, 40, 30, 20,
        20, 30, 40, 50, 40, 30, 20, 30, 40, 50, 40, 30,
        20, 30, 40, 50, 40, 30, 20, 30, 40, 50, 40, 30>>,
        l_buy |->
      <<5, 5, 5, 5, 5, 5, 6, 6, 6, 6, 6, 6,
        5, 5, 5, 5, 5, 5, 6, 6, 6, 6, 6, 6,
        5, 5, 5, 5, 5, 5, 6, 6, 6, 6, 6, 6,
        5, 5, 5, 5, 5, 5, 6, 6, 6, 6, 6, 6>>,
        l_sell |->
      <<5, 5, 5, 5, 5, 5, 6, 6, 6, 6, 6, 6,
        5, 5, 5, 5, 5, 5, 6, 6, 6, 6, 6, 6,
        5, 5, 5, 5, 5, 5, 6, 6, 6, 6, 6, 6,
        5, 5, 5, 5, 5, 5, 6, 6, 6, 6, 6, 6>>])]

CLUSTERING_OUTPUTS ==
  [cluster_labels |-> <<"0", "0">>,
   representative_e_g_factor |-> (
     "CPE#1" :> ("0" :>
      <<0, 0, 0, 0, 0, 1, 2, 3, 4, 5, 6, 7,
        8, 7, 6, 5, 4, 3, 2, 1, 0, 0, 0, 0>>)
     @@
     "CPE#2" :> ("0" :>
      <<0, 0, 0, 0, 0, 0, 0, 0, 0, 0, 0, 0,
        0, 0, 0, 0, 0, 0, 0, 0, 0, 0, 0, 0>>)
     @@
     "CPE#3" :> ("0" :>
      <<0, 0, 0, 0, 0, 1, 2, 3, 4, 5, 6, 7,
        8, 7, 6, 5, 4, 3, 2, 1, 0, 0, 0, 0>>)),
   representative_e_c |-> (
     "CPE#1" :> ("0" :>
      <<10, 20, 30, 40, 30, 20, 10, 20, 30, 40, 30, 20,
        10, 20, 30, 40, 30, 20, 10, 20, 30, 40, 30, 20>>)
     @@
     "CPE#2" :> ("0" :>
      <<1, 2, 3, 4, 3, 2, 1, 2, 3, 4, 3, 2,
        1, 2, 3, 4, 3, 2, 1, 2, 3, 4, 3, 2>>)
     @@
     "CPE#3" :> ("0" :>
      <<10, 20, 30, 40, 30, 20, 10, 20, 30, 40, 30, 20,
        10, 20, 30, 40, 30, 20, 10, 20, 30, 40, 30, 20>>)),
   representative_l_buy |-> (
     "CPE#1" :> ("0" :>
      <<5, 5, 5, 5, 5, 5, 6, 6, 6, 6, 6, 6,
        5, 5, 5, 5, 5, 5, 6, 6, 6, 6, 6, 6>>)
     @@
     "CPE#2" :> ("0" :>
      <<5, 5, 5, 5, 5, 5, 6, 6, 6, 6, 6, 6,
        5, 5, 5, 5, 5, 5, 6, 6, 6, 6, 6, 6>>)
     @@
     "CPE#3" :> ("0" :>
      <<5, 5, 5, 5, 5, 5, 6, 6, 6, 6, 6, 6,
        5, 5, 5, 5, 5, 5, 6, 6, 6, 6, 6, 6>>)),
   representative_l_sell |-> (
     "CPE#1" :> ("0" :>
      <<5, 5, 5, 5, 5, 5, 6, 6, 6, 6, 6, 6,
        5, 5, 5, 5, 5, 5, 6, 6, 6, 6, 6, 6>>)
     @@
     "CPE#2" :> ("0" :>
      <<5, 5, 5, 5, 5, 5, 6, 6, 6, 6, 6, 6,
        5, 5, 5, 5, 5, 5, 6, 6, 6, 6, 6, 6>>)
     @@
     "CPE#3" :> ("0" :>
      <<5, 5, 5, 5, 5, 5, 6, 6, 6, 6, 6, 6,
        5, 5, 5, 5, 5, 5, 6, 6, 6, 6, 6, 6>>)),
   representative_l_grid |-> ("0" :>
      <<1, 2, 3, 4, 1, 2, 3, 4, 1, 2, 3, 4,
        1, 2, 3, 4, 1, 2, 3, 4, 1, 2, 3, 4>>),
   cluster_nr_days |-> ("0" :> 2)]

-----------------------------------------------------------------------------
(* Backpacks *)

\* a meter record with the documented fields; no generation, no storage
Meter(e_c, e_g_factor, l_buy, l_sell) ==
    [l_buy |-> l_buy, l_sell |-> l_sell, l_cont |-> 0, l_gic |-> 0, l_bic |-> 0,
     e_c |-> e_c, p_meter_max |-> 10, p_gn_init |-> 0, e_g_factor |-> e_g_factor,
     p_gn_min |-> 0, p_gn_max |-> 0, e_bn_init |-> 0, e_bn_min |-> 0, e_bn_max |-> 0,
     soc_min |-> 0, eff_bc |-> 100, eff_bd |-> 100, soc_max |-> 100]

\* a meter with p_gn of generation capacity installed and no freedom to invest
WithGeneration(m, p_gn) ==
    [m EXCEPT !.p_gn_init = p_gn, !.p_gn_min = p_gn, !.p_gn_max = p_gn]

\* a meter with e_bn of storage installed and no freedom to invest
WithStorage(m, e_bn, soc_min, eff_bc, eff_bd) ==
    [m EXCEPT !.e_bn_init = e_bn, !.e_bn_min = e_bn, !.e_bn_max = e_bn,
              !.soc_min = soc_min, !.eff_bc = eff_bc, !.eff_bd = eff_bd]

Backpack(nr_days, delta_t, l_grid, total_share, strict_pos, meters) ==
    [nr_days |-> nr_days, l_grid |-> l_grid, delta_t |-> delta_t, storage_ratio |-> 1,
     strict_pos_coeffs |-> strict_pos, total_share_coeffs |-> total_share,
     meters |-> meters,
     \* day-count weight of each day of the horizon (1 for a raw horizon)
     day_weights |-> [d \in 1..nr_days |-> 1]]

Consumer == Meter(<<3, 2>>, <<0, 0>>, <<5, 6>>, <<2, 2>>)

Neighbour == Meter(<<5, 2>>, <<0, 0>>, <<5, 5>>, <<4, 4>>)

Prosumer == WithGeneration(Meter(<<2, 3>>, <<5, 6>>, <<5, 5>>, <<4, 4>>), 1)

Solo(m) == Backpack(1, 12, <<1, 1>>, FALSE, FALSE, "CPE#1" :> m)

Pair(total_share, strict_pos, l_grid, a, b) ==
    Backpack(1, 12, l_grid, total_share, strict_pos, ("CPE#1" :> a) @@ ("CPE#2" :> b))

\* backpacks that respect every configuration rule
ValidPool ==
    (<<"solo">> :> Solo(Consumer))
    @@ (<<"solo_daily">> :> Backpack(2, 24, <<1, 1>>, FALSE, FALSE, "CPE#1" :> Consumer))
    @@ (<<"solo_over">> :> Solo([Consumer EXCEPT !.e_c = <<14, 2>>, !.p_meter_max = 1]))
    @@ (<<"solo_forced">> :> Solo([Consumer EXCEPT !.p_gn_min = 1, !.p_gn_max = 1, !.l_gic = 3]))
    @@ (<<"pair_share">> :> Pair(TRUE, FALSE, <<3, 3>>, Prosumer, Neighbour))
    @@ (<<"pair_strict">> :> Pair(TRUE, TRUE, <<0, 0>>, Prosumer, Neighbour))
    @@ (<<"pair_free">> :> Pair(FALSE, FALSE, <<3, 3>>, Prosumer, Neighbour))
    @@ (<<"pair_cheap">> :> Pair(FALSE, TRUE, <<0, 0>>, Prosumer, Neighbour))
    @@ (<<"pair_bat">> :> Pair(TRUE, FALSE, <<3, 3>>,
                           WithStorage([Prosumer EXCEPT !.l_buy = <<1, 9>>], 2, 0, 50, 50),
                           Neighbour))
    @@ (<<"pair_soc">> :> Pair(FALSE, FALSE, <<3, 3>>,
                           WithStorage([Consumer EXCEPT !.l_buy = <<1, 9>>], 2, 50, 100, 50),
                           Neighbour))
    @@ (<<"pair_invest">> :> Pair(FALSE, FALSE, <<3, 3>>,
                              [Consumer EXCEPT !.l_buy = <<1, 9>>, !.e_bn_max = 1, !.l_bic = 2],
                              Neighbour))
    @@ (<<"no_charge">> :> [Solo([WithStorage(Consumer, 4, 50, 100, 100) EXCEPT !.e_bn_init = 2])
                           EXCEPT !.storage_ratio = 0])

\* one backpack per configuration rule, violating that rule (and one violating two)
InvalidPool ==
    (<<"bad_delta_t">> :> [Solo(Consumer) EXCEPT !.delta_t = 0])
    @@ (<<"bad_nr_days">> :> [Solo(Consumer) EXCEPT !.nr_days = 0, !.day_weights = <<>>])
    @@ (<<"bad_l_grid">> :> [Solo(Consumer) EXCEPT !.l_grid = <<1, 1, 1>>])
    @@ (<<"bad_e_c">> :> Pair(FALSE, FALSE, <<1, 1>>, Consumer, [Neighbour EXCEPT !.e_c = <<5>>]))
    @@ (<<"bad_l_sell">> :> Solo([Consumer EXCEPT !.l_sell = <<2, 2, 2>>]))
    @@ (<<"bad_soc">> :> Solo([Consumer EXCEPT !.soc_min = 80, !.soc_max = 20]))
    @@ (<<"bad_p_gn">> :> Solo([Consumer EXCEPT !.p_gn_min = 2, !.p_gn_max = 1]))
    @@ (<<"bad_e_bn">> :> Pair(FALSE, FALSE, <<1, 1>>, [Consumer EXCEPT !.e_bn_min = 1], Neighbour))
    @@ (<<"bad_eff_bc">> :> Solo([Consumer EXCEPT !.eff_bc = 0]))
    @@ (<<"bad_eff_bd">> :> Solo([Consumer EXCEPT !.eff_bd = 120]))
    @@ (<<"bad_hourly">> :> Backpack(1, 12, [t \in 1..24 |-> 1], FALSE, FALSE,
                                "CPE#1" :> Meter([t \in 1..24 |-> 1], [t \in 1..24 |-> 0],
                                                 [t \in 1..24 |-> 5], [t \in 1..24 |-> 2])))
    @@ (<<"bad_two">> :> Pair(FALSE, FALSE, <<1, 1>>,
                          [Consumer EXCEPT !.eff_bc = 0],
                          [Neighbour EXCEPT !.l_buy = <<5>>]))

\* installed generation capacities tried with the clustered example, in kW
ClusterCapacities == {0, 2}

\* variant: the representative profiles of the meters taken one position off,
\* "CPE#3" given those of "CPE#2"
ClusterMeterShifted(id, p_gn) ==
    LET from == IF id = "CPE#3" THEN "CPE#2" ELSE id
    IN  WithGeneration(
            [Meter(CLUSTERING_OUTPUTS.representative_e_c[from]["0"],
                   CLUSTERING_OUTPUTS.representative_e_g_factor[from]["0"],
                   CLUSTERING_OUTPUTS.representative_l_buy[from]["0"],
                   CLUSTERING_OUTPUTS.representative_l_sell[from]["0"])
                EXCEPT !.p_meter_max = 100],
            p_gn)

\* the clustered example as a backpack: one representative day "0" of 24 hourly
\* steps standing for cluster_nr_days["0"] days, the three meters with the
\* representative profiles and otherwise identical parameters
ClusterMeter(id, p_gn) ==
    WithGeneration(
        [Meter(CLUSTERING_OUTPUTS.representative_e_c[id]["0"],
               CLUSTERING_OUTPUTS.representative_e_g_factor[id]["0"],
               CLUSTERING_OUTPUTS.representative_l_buy[id]["0"],
               CLUSTERING_OUTPUTS.representative_l_sell[id]["0"])
            EXCEPT !.p_meter_max = 100],
        p_gn)

ClusterBackpack(p_gn, total_share, strict_pos) ==
    [Backpack(CLUSTERING_INPUTS.nr_representative_days, CLUSTERING_INPUTS.delta_t,
              CLUSTERING_OUTPUTS.representative_l_grid["0"], total_share, strict_pos,
              [id \in DOMAIN CLUSTERING_OUTPUTS.representative_e_c |-> ClusterMeter(id, p_gn)])
        EXCEPT !.day_weights = <<CLUSTERING_OUTPUTS.cluster_nr_days["0"]>>]

ClusterId(p_gn, total_share, strict_pos) ==
    <<"cluster", p_gn, total_share, strict_pos>>

\* the representative day mistaken for the raw horizon: nr_days of the raw
\* series with the 24-entry representative arrays
RawDaysBackpack ==
    [ClusterBackpack(0, FALSE, FALSE) EXCEPT
        !.nr_days = CLUSTERING_INPUTS.nr_days,
        !.day_weights = [d \in 1..CLUSTERING_INPUTS.nr_days |-> 1]]

ClusterPool ==
    [id \in {ClusterId(p, ts, sp) : p \in ClusterCapacities, ts \in BOOLEAN, sp \in BOOLEAN}
        |-> ClusterBackpack(id[2], id[3], id[4])]
    @@ (<<"cluster_raw_days">> :> RawDaysBackpack)

SmallPool == ValidPool @@ InvalidPool
-----------------------------------------------------------------------------
(* Horizon and Config Resolver (specification 4.1) *)

\* the expected length of a time-varying array: horizon over step
HorizonLength(nr_days, delta_t) == (nr_days * HoursPerDay) \div delta_t

\* variant: the length compared with the hours of the horizon, the step forgotten
LengthCompliesIgnoringStep(a, nr_days, delta_t) == Len(a) = nr_days * HoursPerDay

\* an array complies with the expected length (exact also when the step does
\* not divide the horizon: then no array complies)
LengthComplies(a, nr_days, delta_t) == Len(a) * delta_t = nr_days * HoursPerDay

MeterArrays == {"e_c", "e_g_factor", "l_buy", "l_sell"}

\* the <<meter, field>> pairs that break a configuration rule; community-level
\* fields are reported under "REC".  Lengths are checked once the horizon exists.
Violations(bp) ==
    LET horizon_ok == bp.delta_t > 0 /\ bp.nr_days > 0
        meter_rules(m) ==
            LET mt == bp.meters[m]
            IN  {<<m, f>> : f \in {g \in MeterArrays :
                        horizon_ok /\ ~LengthComplies(mt[g], bp.nr_days, bp.delta_t)}}
                \cup (IF mt.soc_min > mt.soc_max THEN {<<m, "soc_min">>} ELSE {})
                \cup (IF mt.p_gn_min > mt.p_gn_max THEN {<<m, "p_gn_min">>} ELSE {})
                \cup (IF mt.e_bn_min > mt.e_bn_max THEN {<<m, "e_bn_min">>} ELSE {})
                \cup (IF mt.eff_bc <= 0 \/ mt.eff_bc > 100 THEN {<<m, "eff_bc">>} ELSE {})
                \cup (IF mt.eff_bd <= 0 \/ mt.eff_bd > 100 THEN {<<m, "eff_bd">>} ELSE {})
    IN  (IF bp.delta_t <= 0 THEN {<<"REC", "delta_t">>} ELSE {})
        \cup (IF bp.nr_days <= 0 THEN {<<"REC", "nr_days">>} ELSE {})
        \cup (IF horizon_ok /\ ~LengthComplies(bp.l_grid, bp.nr_days, bp.delta_t)
              THEN {<<"REC", "l_grid">>} ELSE {})
        \cup UNION {meter_rules(m) : m \in DOMAIN bp.meters}

ConfigurationError(v) == [error |-> "ConfigurationError", meter |-> v[1], field |-> v[2]]

-----------------------------------------------------------------------------
(* Variable and Constraint Builder, Objective Assembler (specification 4.2, 4.3) *)

\* the constant of the big-M complementarity constraints
BigM == 1000
\* price of one unit of energy exchanged beyond the meter's power limit
OvercapacityPrice == 7
\* degradation price of one unit of discharged energy
DegradationPrice == 1

NoModel == [built |-> FALSE]

\* the variable/constraint set of one call: the normalized configuration, the
\* horizon, and the count of binary indicators (one per meter, step and family)
BuildModel(bp) ==
    [built |-> TRUE,
     cfg |-> bp,
     horizon |-> HorizonLength(bp.nr_days, bp.delta_t),
     n_binaries |-> Cardinality(DOMAIN bp.meters) * HorizonLength(bp.nr_days, bp.delta_t)]

\* installed capacities the solver may decide: bounded by [min, max]
CapacityChoices(mt) ==
    {[p_gn |-> p, e_bn |-> e] : p \in mt.p_gn_min..mt.p_gn_max, e \in mt.e_bn_min..mt.e_bn_max}

\* amortized cost of the capacity added to what is installed
InvestmentCost(mt, cap) ==
    mt.l_gic * Max(0, cap.p_gn - mt.p_gn_init) + mt.l_bic * Max(0, cap.e_bn - mt.e_bn_init)

\* storage content before the first step, times 100 * eff_bd
SeedContent(mt) == mt.soc_min * mt.e_bn_init * mt.eff_bd

\* charge and discharge never both positive: charge <= M*b, discharge <= M*(1-b)
Complementary(charge, discharge) ==
    \E b \in {0, 1} : charge <= BigM * b /\ discharge <= BigM * (1 - b)

\* content after a step (times 100 * eff_bd):
\* content' = content + eff_bc * charge - discharge / eff_bd
ContentAfter(mt, content, charge, discharge) ==
    content + mt.eff_bc * mt.eff_bd * charge - 10000 * discharge

\* variant: the lower limit of the content left at empty instead of soc_min
ContentWithinSocNoFloor(mt, cap, content) ==
    /\ 0 <= content
    /\ content <= mt.soc_max * cap.e_bn * mt.eff_bd

\* soc_min * capacity <= content <= soc_max * capacity
ContentWithinSoc(mt, cap, content) ==
    /\ mt.soc_min * cap.e_bn * mt.eff_bd <= content
    /\ content <= mt.soc_max * cap.e_bn * mt.eff_bd

\* the storage decisions of one step that satisfy dynamics, limits and complementarity
StorageMoves(cfg, mt, cap, content) ==
    LET limit == Min(MaxFlow, cfg.storage_ratio * cap.e_bn * cfg.delta_t)
    IN  {mv \in {[e_bc |-> c, e_bd |-> d, e_bat |-> ContentAfter(mt, content, c, d)] :
                    c \in 0..limit, d \in 0..limit} :
            /\ Complementary(mv.e_bc, mv.e_bd)
            /\ ContentWithinSoc(mt, cap, mv.e_bat)}

\* storage schedules of one meter for steps t..horizon
RECURSIVE MeterSchedules(_, _, _, _, _, _)
MeterSchedules(cfg, horizon, mt, cap, t, content) ==
    IF t > horizon THEN {<<>>}
    ELSE UNION {{<<mv>> \o rest :
                    rest \in MeterSchedules(cfg, horizon, mt, cap, t + 1, mv.e_bat)} :
                mv \in StorageMoves(cfg, mt, cap, content)}

\* capacities and storage schedules of every meter
Plans(model) ==
    LET cfg == model.cfg
        M == DOMAIN cfg.meters
    IN  UNION {{[caps |-> caps, sched |-> s] :
                    s \in FunProduct([m \in M |-> MeterSchedules(cfg, model.horizon,
                                        cfg.meters[m], caps[m], 1, SeedContent(cfg.meters[m]))], M)} :
               caps \in FunProduct([m \in M |-> CapacityChoices(cfg.meters[m])], M)}

\* self-generation available to meter m in step t
Generation(cfg, caps, m, t) == cfg.meters[m].e_g_factor[t] * caps[m].p_gn

\* net load of meter m in step t after using the storage
NetLoad(cfg, plan, m, t) ==
    cfg.meters[m].e_c[t] + plan.sched[m][t].e_bc - plan.sched[m][t].e_bd
        - Generation(cfg, plan.caps, m, t)

\* variant: sharing left to the economics of the step, no rule imposed
ShareRuleOptional(cfg, surplus, deficit, given, recv) == TRUE

\* the sharing rule: in a community-wide deficit every meter shares all its
\* surplus; otherwise every consuming meter is served up to its consumption
ShareRule(cfg, surplus, deficit, given, recv) ==
    LET M == DOMAIN cfg.meters
    IN  cfg.total_share_coeffs =>
            IF SumOver(deficit, M) > SumOver(surplus, M)
            THEN \A m \in M : given[m] = surplus[m]
            ELSE \A m \in M : recv[m] = deficit[m]

\* the activation indicator of an allocation; once active under
\* strict_pos_coeffs the allocation has a positive lower bound
StrictlyPositive(cfg, recv) ==
    \A m \in DOMAIN cfg.meters :
        \E b \in {0, 1} : /\ recv[m] <= BigM * b
                          /\ cfg.strict_pos_coeffs => recv[m] >= b

\* the internal allocations of step t: energy given by meters with surplus and
\* received by meters with deficit, cleared by one equality per step
Allocations(cfg, plan, t) ==
    LET M == DOMAIN cfg.meters
        surplus == [m \in M |-> Max(0, 0 - NetLoad(cfg, plan, m, t))]
        deficit == [m \in M |-> Max(0, NetLoad(cfg, plan, m, t))]
        most == Min(SumOver(surplus, M), SumOver(deficit, M))
    IN  {a \in {[given |-> g, recv |-> r] :
                    g \in FunProduct([m \in M |-> 0..Min(surplus[m], most)], M),
                    r \in FunProduct([m \in M |-> 0..Min(deficit[m], most)], M)} :
            /\ SumOver(a.given, M) = SumOver(a.recv, M)
            /\ ShareRule(cfg, surplus, deficit, a.given, a.recv)
            /\ StrictlyPositive(cfg, a.recv)}

\* variant: the energy received from the community not deducted from the purchase
PurchaseIgnoringReceived(cfg, plan, a, m, t) ==
    Max(0, NetLoad(cfg, plan, m, t) + a.given[m])

\* energy bought from and sold to the retailer once the allocation is netted:
\* net load = (purchase - sale) + received - given, never buying and selling at once
Purchase(cfg, plan, a, m, t) == Max(0, NetLoad(cfg, plan, m, t) - a.recv[m] + a.given[m])

Sale(cfg, plan, a, m, t) == Max(0, 0 - (NetLoad(cfg, plan, m, t) - a.recv[m] + a.given[m]))

\* energy exchanged beyond p_meter_max over the step
Excess(cfg, plan, m, t) ==
    LET load == NetLoad(cfg, plan, m, t)
        flow == IF load >= 0 THEN load ELSE 0 - load
    IN  Max(0, flow - cfg.meters[m].p_meter_max * cfg.delta_t)

\* weight of the day step t belongs to
DayWeight(cfg, t) == cfg.day_weights[((t - 1) * cfg.delta_t) \div HoursPerDay + 1]

\* variant: tariffs applied per step, the length of the step forgotten
StepCostPerStep(cfg, plan, a, m, t) ==
    DayWeight(cfg, t) *
        ( Purchase(cfg, plan, a, m, t) * cfg.meters[m].l_buy[t]
          - Sale(cfg, plan, a, m, t) * cfg.meters[m].l_sell[t]
          + a.recv[m] * cfg.l_grid[t]
          + OvercapacityPrice * Excess(cfg, plan, m, t)
          + DegradationPrice * plan.sched[m][t].e_bd )

\* meter m's objective term of step t
StepCost(cfg, plan, a, m, t) ==
    DayWeight(cfg, t) *
        ( ( Purchase(cfg, plan, a, m, t) * cfg.meters[m].l_buy[t]
            - Sale(cfg, plan, a, m, t) * cfg.meters[m].l_sell[t]
            + a.recv[m] * cfg.l_grid[t] ) * cfg.delta_t
          + OvercapacityPrice * Excess(cfg, plan, m, t)
          + DegradationPrice * plan.sched[m][t].e_bd )

StepTotal(cfg, plan, a, t) ==
    SumOver([m \in DOMAIN cfg.meters |-> StepCost(cfg, plan, a, m, t)], DOMAIN cfg.meters)

\* the allocations of step t of least cost
BestAllocations(cfg, plan, t) ==
    LET all == Allocations(cfg, plan, t)
        cost == [a \in all |-> StepTotal(cfg, plan, a, t)]
        least == MinOf({cost[a] : a \in all})
    IN  {a \in all : cost[a] = least}

\* the collective objective of a plan with a best allocation in every step
PlanCost(model, plan, best) ==
    LET cfg == model.cfg
        M == DOMAIN cfg.meters
    IN  SumSeq([t \in 1..model.horizon |->
                    StepTotal(cfg, plan, CHOOSE a \in best[t] : TRUE, t)])
        + SumOver([m \in M |-> InvestmentCost(cfg.meters[m], plan.caps[m])], M)

-----------------------------------------------------------------------------
(* Solver Adapter (specification 4.4) *)

\* node limits the external solver may be configured with
NodeLimits == {2, 1000}

NoSolution == [found |-> FALSE]

\* the optimal solutions of the model: every plan of least cost with, in every
\* step, any of the allocations of least cost (the solver is free among ties)
OptimalSolutions(model) ==
    LET cfg == model.cfg
        steps == 1..model.horizon
        plans == Plans(model)
        best == [p \in plans |-> [t \in steps |-> BestAllocations(cfg, p, t)]]
        cost == [p \in plans |-> PlanCost(model, p, best[p])]
        least == MinOf({cost[p] : p \in plans})
    IN  UNION {{[found |-> TRUE, objective |-> least, plan |-> p, alloc |-> a] :
                    a \in SeqProduct(best[p], model.horizon)} :
               p \in {q \in plans : cost[q] = least}}

\* the status the solver reports: no feasible point, the node limit reached
\* before optimality is proved, or optimal (every variable of the model is
\* bounded, so the objective is never unbounded)
SolverStatus(model, config) ==
    IF Plans(model) = {} THEN "Infeasible"
    ELSE IF model.n_binaries > config.node_limit THEN "SubOptimal"
    ELSE "Optimal"

-----------------------------------------------------------------------------
(* Output Mapper (specification 4.5) *)

OutputFields ==
    {"milp_status", "obj_value", "c_ind2pool", "p_gn", "e_bn", "e_bat", "e_bc", "e_bd",
     "e_cmet", "e_consumed", "e_sur_retail", "e_alc", "e_sale_pool", "p_extra"}

\* the result record: the status always, the numeric fields of an optimal solve
GenerateOutputs(inst) ==
    IF inst.status = "Optimal"
    THEN LET cfg == inst.model.cfg
             sol == inst.solution
             M == DOMAIN cfg.meters
             steps == 1..inst.model.horizon
         IN  [milp_status |-> inst.status,
              obj_value |-> sol.objective,
              c_ind2pool |-> [m \in M |->
                  SumSeq([t \in steps |-> StepCost(cfg, sol.plan, sol.alloc[t], m, t)])
                  + InvestmentCost(cfg.meters[m], sol.plan.caps[m])],
              p_gn |-> [m \in M |-> sol.plan.caps[m].p_gn],
              e_bn |-> [m \in M |-> sol.plan.caps[m].e_bn],
              e_bat |-> [m \in M |-> [t \in steps |-> sol.plan.sched[m][t].e_bat]],
              e_bc |-> [m \in M |-> [t \in steps |-> sol.plan.sched[m][t].e_bc]],
              e_bd |-> [m \in M |-> [t \in steps |-> sol.plan.sched[m][t].e_bd]],
              e_cmet |-> [m \in M |-> [t \in steps |-> NetLoad(cfg, sol.plan, m, t)]],
              e_consumed |-> [m \in M |->
                  [t \in steps |-> Purchase(cfg, sol.plan, sol.alloc[t], m, t)]],
              e_sur_retail |-> [m \in M |->
                  [t \in steps |-> Sale(cfg, sol.plan, sol.alloc[t], m, t)]],
              e_alc |-> [m \in M |-> [t \in steps |-> sol.alloc[t].recv[m]]],
              e_sale_pool |-> [m \in M |-> [t \in steps |-> sol.alloc[t].given[m]]],
              p_extra |-> [m \in M |-> [t \in steps |-> Excess(cfg, sol.plan, m, t)]]]
    ELSE [milp_status |-> inst.status]

-----------------------------------------------------------------------------
(* run_pre_collective_pool_milp *)

NoInstance == [exists |-> FALSE]

NoResults == [milp_status |-> "none"]

NoOutcome == [kind |-> "none"]

\* milp = CollectiveMILPPool(backpack): a fresh instance made from the backpack alone
CollectiveMILPPool(bp) ==
    [exists |-> TRUE, model |-> BuildModel(bp), status |-> "Not Solved",
     solution |-> NoSolution]

\* variant: the body wrapped in a handler that swallows the exception and
\* returns an empty result
PropagateSwallowed(exception) == [kind |-> "return", value |-> NoResults]

\* an exception raised by a statement of the body reaches the caller: the body
\* has no handler
Propagate(exception) == [kind |-> "raise", error |-> exception]

\* variant: the solve attempted again when the status is not optimal
AfterSolveRetrying(status) == IF status = "Optimal" THEN "solved" ELSE "constructed"

\* where the body goes once solve_milp has returned: to generate_outputs,
\* whatever the status
AfterSolve(status) == "solved"

\* variant: a status other than optimal turned into an exception
ReturnOutcomeRaising(res) ==
    IF res.milp_status = "Optimal"
    THEN [kind |-> "return", value |-> res]
    ELSE [kind |-> "raise", error |-> [error |-> "SolverStatusError", meter |-> "REC",
                                       field |-> res.milp_status]]

\* return results: the record generate_outputs gave, as it is
ReturnOutcome(res) == [kind |-> "return", value |-> res]

\* variant: the instance kept in a module-level name after the call
ReleaseLocalKept(inst) == inst

\* the local variable milp after the call: the frame is gone
ReleaseLocal(inst) == NoInstance

\* the first completed call, kept for comparison with later ones
Remember(out) == IF first = {} THEN {[id |-> bp_id, outcome |-> out]} ELSE first

Call(id) ==
    /\ pc = "idle"
    /\ calls < MaxCalls
    /\ pc' = "entered"
    /\ bp_id' = id
    /\ backpack' = pool[id]
    /\ results' = NoResults
    /\ solver_log' = <<>>
    /\ stages' = <<>>
    /\ handed' = NoModel
    /\ UNCHANGED <<milp, outcome, calls, first, solver_cfg, pool>>

\* line 103, the configuration is accepted: the model is built
Construct ==
    /\ pc = "entered"
    /\ Violations(backpack) = {}
    /\ milp' = CollectiveMILPPool(backpack)
    /\ stages' = Append(stages, "build")
    /\ pc' = "constructed"
    /\ UNCHANGED <<backpack, bp_id, results, outcome, calls, first, solver_cfg,
                   solver_log, handed, pool>>

\* line 103, the configuration is refused before anything is built
ConstructRaises ==
    /\ pc = "entered"
    /\ \E v \in Violations(backpack) :
          LET out == Propagate(ConfigurationError(v))
          IN  outcome' = out /\ first' = Remember(out)
    /\ calls' = calls + 1
    /\ pc' = "idle"
    /\ UNCHANGED <<backpack, bp_id, milp, results, solver_cfg, solver_log, stages,
                   handed, pool>>

\* line 104: one blocking call of the solver
SolveMilp ==
    /\ pc = "constructed"
    /\ LET status == SolverStatus(milp.model, solver_cfg)
       IN  /\ \E sol \in (IF status = "Optimal" THEN OptimalSolutions(milp.model)
                                                ELSE {NoSolution}) :
                 milp' = [milp EXCEPT !.status = status, !.solution = sol]
           /\ solver_log' = Append(solver_log, status)
           /\ pc' = AfterSolve(status)
    /\ handed' = milp.model
    /\ stages' = Append(stages, "solve")
    /\ UNCHANGED <<backpack, bp_id, results, outcome, calls, first, solver_cfg, pool>>

\* line 105
Extract ==
    /\ pc = "solved"
    /\ results' = GenerateOutputs(milp)
    /\ stages' = Append(stages, "extract")
    /\ pc' = "extracted"
    /\ UNCHANGED <<backpack, bp_id, milp, outcome, calls, first, solver_cfg,
                   solver_log, handed, pool>>

\* line 109
Return ==
    /\ pc = "extracted"
    /\ LET out == ReturnOutcome(results)
       IN  outcome' = out /\ first' = Remember(out)
    /\ calls' = calls + 1
    /\ milp' = ReleaseLocal(milp)
    /\ pc' = "idle"
    /\ UNCHANGED <<backpack, bp_id, results, solver_cfg, solver_log, stages, handed, pool>>

Next ==
    \/ \E id \in DOMAIN pool : Call(id)
    \/ Construct
    \/ ConstructRaises
    \/ SolveMilp
    \/ Extract
    \/ Return

InitWith(p) ==
    /\ pc = "idle"
    /\ pool = p
    /\ bp_id = <<>>
    /\ backpack = [meters |-> <<>>]
    /\ milp = NoInstance
    /\ results = NoResults
    /\ outcome = NoOutcome
    /\ calls = 0
    /\ first = {}
    /\ solver_cfg \in {[node_limit |-> n] : n \in NodeLimits}
    /\ solver_log = <<>>
    /\ stages = <<>>
    /\ handed = NoModel

Init == InitWith(SmallPool)

Spec == Init /\ [][Next]_vars

InitCluster == InitWith(ClusterPool)

SpecCluster == InitCluster /\ [][Next]_vars

-----------------------------------------------------------------------------
(* Properties of the call *)

\* the last call has completed and got past the configuration rules
Completed == pc = "idle" /\ calls > 0 /\ stages # <<>>

\* the last call has returned an optimal result
ReturnedOptimal ==
    /\ Completed
    /\ outcome.kind = "return"
    /\ outcome.value.milp_status = "Optimal"

\* C1: the status a call returns is the status the solver reported; the numeric
\* fields of the result are there exactly when that status is "Optimal", and a
\* status other than optimal is returned as data, never raised, with no other field
StatusPassedThrough ==
    Completed =>
        /\ outcome.kind = "return"
        /\ Len(solver_log) > 0
        /\ outcome.value.milp_status = solver_log[Len(solver_log)]
        /\ outcome.value.milp_status = "Optimal" => DOMAIN outcome.value = OutputFields
        /\ outcome.value.milp_status # "Optimal" => DOMAIN outcome.value = {"milp_status"}

\* a call has returned the status of a solve that found no feasible point
InfeasibleReturned ==
    /\ Completed
    /\ outcome.kind = "return"
    /\ outcome.value.milp_status = "Infeasible"
    /\ solver_log = <<"Infeasible">>

\* C2: a call with a backpack that breaks a configuration rule fails with a
\* ConfigurationError naming a meter and field that break a rule, before any
\* model exists: nothing is built and the solver is not invoked
InvalidBackpackRefused ==
    /\ (pc = "idle" /\ calls > 0 /\ Violations(backpack) # {}) =>
          /\ outcome.kind = "raise"
          /\ outcome.error.error = "ConfigurationError"
          /\ <<outcome.error.meter, outcome.error.field>> \in Violations(backpack)
          /\ stages = <<>>
          /\ solver_log = <<>>
          /\ handed = NoModel
          /\ milp = NoInstance
    /\ (bp_id # <<>> /\ Violations(backpack) # {}) => milp = NoInstance /\ stages = <<>>

\* a call with a backpack breaking two rules has failed on the second meter's array
TwoViolationsRefused ==
    /\ pc = "idle"
    /\ bp_id = <<"bad_two">>
    /\ Cardinality(Violations(backpack)) = 2
    /\ outcome.kind = "raise"
    /\ outcome.error.meter = "CPE#2"
    /\ outcome.error.field = "l_buy"

\* C3: the stages of a call run once each in the order build, solve, extract; the
\* solver is invoked at most once, extraction starts only after the solve has
\* returned, and the model handed to the solver is the model the instance keeps
StagesOnceInOrder ==
    /\ \E n \in 0..3 : stages = SubSeq(<<"build", "solve", "extract">>, 1, n)
    /\ Len(solver_log) <= 1
    /\ Len(solver_log) = Cardinality({i \in DOMAIN stages : stages[i] = "solve"})
    /\ pc \in {"solved", "extracted"} => Len(solver_log) = 1
    /\ results # NoResults => Len(solver_log) = 1
    /\ (handed # NoModel /\ milp # NoInstance) => milp.model = handed

\* a call whose only solve reported a status other than optimal has gone on to
\* extract the outputs
FailedSolveExtracted ==
    /\ pc = "extracted"
    /\ stages = <<"build", "solve", "extract">>
    /\ solver_log = <<"SubOptimal">>
    /\ milp.model = handed

\* C8: a solve is a function of its backpack: a later call with the backpack of
\* the first call yields the same status and objective, the backpack is left as
\* it was passed, and nothing a call created is there when the next one starts
SolveIsPure ==
    /\ bp_id # <<>> => backpack = pool[bp_id]
    /\ pc \in {"idle", "entered"} => milp = NoInstance
    /\ pc = "entered" => results = NoResults /\ solver_log = <<>> /\ stages = <<>>
    /\ \A f \in first :
          (pc = "idle" /\ bp_id = f.id) =>
              /\ outcome.kind = f.outcome.kind
              /\ outcome.kind = "return" =>
                    /\ outcome.value.milp_status = f.outcome.value.milp_status
                    /\ DOMAIN outcome.value = DOMAIN f.outcome.value
                    /\ "obj_value" \in DOMAIN outcome.value =>
                          outcome.value.obj_value = f.outcome.value.obj_value

\* the backpack of the first call has been solved again after a call with another
\* backpack, to an optimal result both times
SolvedAgain ==
    /\ ReturnedOptimal
    /\ calls >= 3
    /\ \E f \in first : f.id = bp_id /\ f.outcome.kind = "return"
                        /\ f.outcome.value.milp_status = "Optimal"

-----------------------------------------------------------------------------
(* Properties of the model and of the optimal result *)

\* the lengths of the time-varying arrays of a configuration against a horizon
ArraysHave(cfg, T) ==
    /\ Len(cfg.l_grid) = T
    /\ \A m \in DOMAIN cfg.meters : \A f \in MeterArrays : Len(cfg.meters[m][f]) = T

\* C4: whenever a model has been built or solved its horizon is
\* T = nr_days * 24 / delta_t and l_grid and every meter's e_c, e_g_factor, l_buy
\* and l_sell have T entries; the example input (nr_days 2, delta_t 1) has 48
HorizonLengthsMatch ==
    /\ milp # NoInstance =>
          /\ milp.model.horizon * milp.model.cfg.delta_t = milp.model.cfg.nr_days * HoursPerDay
          /\ ArraysHave(milp.model.cfg, milp.model.horizon)
    /\ handed # NoModel =>
          /\ handed.horizon * handed.cfg.delta_t = handed.cfg.nr_days * HoursPerDay
          /\ ArraysHave(handed.cfg, handed.horizon)
    /\ HorizonLength(CLUSTERING_INPUTS.nr_days, CLUSTERING_INPUTS.delta_t) = 48
    /\ Len(CLUSTERING_INPUTS.l_grid) = 48
    /\ \A m \in DOMAIN CLUSTERING_INPUTS.timeseries_data : \A f \in MeterArrays :
          Len(CLUSTERING_INPUTS.timeseries_data[m][f]) = 48

\* a model of two daily steps has been built from a two-day backpack and solved
TwoDayModelSolved ==
    /\ pc = "solved"
    /\ milp.model.cfg.nr_days = 2
    /\ milp.model.cfg.delta_t = 24
    /\ milp.model.horizon = 2
    /\ handed = milp.model

\* the meters and steps of the backpack of the last call
Meters == DOMAIN backpack.meters

Steps == 1..HorizonLength(backpack.nr_days, backpack.delta_t)

\* the storage content of meter m after step t (times 100 * eff_bd) that follows
\* from the reported charge and discharge and the seeded initial content
RECURSIVE StoredContent(_, _)
StoredContent(m, t) ==
    IF t = 0 THEN SeedContent(backpack.meters[m])
    ELSE StoredContent(m, t - 1)
            + backpack.meters[m].eff_bc * backpack.meters[m].eff_bd * outcome.value.e_bc[m][t]
            - 100 * 100 * outcome.value.e_bd[m][t]

\* C5: in an optimal result the storage content of every meter follows
\* content[t] = content[t-1] + eff_bc*charge[t] - discharge[t]/eff_bd from the
\* seeded content, stays within [soc_min*capacity, soc_max*capacity], and charge
\* and discharge are never both positive in a step
StorageWithinLimits ==
    ReturnedOptimal =>
        \A m \in Meters : \A t \in Steps :
            /\ outcome.value.e_bat[m][t] = StoredContent(m, t)
            /\ backpack.meters[m].soc_min * outcome.value.e_bn[m] * backpack.meters[m].eff_bd
                  <= outcome.value.e_bat[m][t]
            /\ outcome.value.e_bat[m][t]
                  <= backpack.meters[m].soc_max * outcome.value.e_bn[m] * backpack.meters[m].eff_bd
            /\ ~(outcome.value.e_bc[m][t] > 0 /\ outcome.value.e_bd[m][t] > 0)

\* an optimal result charges a storage in one step and discharges it in another
StorageCycled ==
    /\ ReturnedOptimal
    /\ \E m \in Meters :
          /\ outcome.value.e_bn[m] > 0
          /\ \E t \in Steps : outcome.value.e_bc[m][t] > 0
          /\ \E t \in Steps : outcome.value.e_bd[m][t] > 0

\* consumption plus charging minus discharging minus self-generation of meter m
\* in step t of the result
MeterSide(m, t) ==
    backpack.meters[m].e_c[t] + outcome.value.e_bc[m][t] - outcome.value.e_bd[m][t]
        - backpack.meters[m].e_g_factor[t] * outcome.value.p_gn[m]

CommunityDeficit(t) ==
    SumOver([m \in Meters |-> outcome.value.e_cmet[m][t]], Meters) > 0

\* C7: under total_share_coeffs, in a step in which the community is in deficit
\* and a member still buys, no meter sells to the retailer: every meter's
\* surplus of the step is allocated inside the community
DeficitSharesAll ==
    (ReturnedOptimal /\ backpack.total_share_coeffs) =>
        \A t \in Steps :
            (CommunityDeficit(t) /\ \E m \in Meters : outcome.value.e_consumed[m][t] > 0) =>
                \A m \in Meters :
                    /\ outcome.value.e_sur_retail[m][t] = 0
                    /\ outcome.value.e_sale_pool[m][t] = Max(0, 0 - outcome.value.e_cmet[m][t])

\* an optimal result under total_share_coeffs with a deficit step in which a
\* meter in surplus gives all of it away although selling would pay more
SurplusSharedAtALoss ==
    /\ ReturnedOptimal
    /\ backpack.total_share_coeffs
    /\ \E t \in Steps : \E m \in Meters :
          /\ CommunityDeficit(t)
          /\ outcome.value.e_cmet[m][t] < 0
          /\ outcome.value.e_sale_pool[m][t] = 0 - outcome.value.e_cmet[m][t]
          /\ backpack.meters[m].l_sell[t] + backpack.l_grid[t] > backpack.meters[m].l_buy[t]

\* the backpack has one meter, without storage and without generation
SingleBareMeter ==
    /\ Cardinality(Meters) = 1
    /\ \A m \in Meters :
          /\ backpack.meters[m].e_bn_max = 0
          /\ \A t \in Steps : backpack.meters[m].e_g_factor[t] * backpack.meters[m].p_gn_max = 0

\* the result buys the consumption of every step at the tariff
BuysAtTariff ==
    \A m \in Meters :
        /\ \A t \in Steps : outcome.value.e_consumed[m][t] = backpack.meters[m].e_c[t]
        /\ outcome.value.obj_value =
              SumSeq([t \in Steps |-> backpack.meters[m].e_c[t] * backpack.meters[m].l_buy[t]
                                          * backpack.delta_t])

\* the consumption stays within the meter's limit and no capacity has to be
\* bought
WithinLimitNothingBought ==
    \A m \in Meters :
        /\ \A t \in Steps : backpack.meters[m].e_c[t] <= backpack.meters[m].p_meter_max * backpack.delta_t
        /\ backpack.meters[m].l_gic
              * Max(0, backpack.meters[m].p_gn_min - backpack.meters[m].p_gn_init) = 0

-----------------------------------------------------------------------------
(* Properties of the clustered example *)

\* the representative profiles of two meters of the clustered example agree
SameProfiles(a, b) ==
    /\ CLUSTERING_OUTPUTS.representative_e_g_factor[a] = CLUSTERING_OUTPUTS.representative_e_g_factor[b]
    /\ CLUSTERING_OUTPUTS.representative_e_c[a] = CLUSTERING_OUTPUTS.representative_e_c[b]
    /\ CLUSTERING_OUTPUTS.representative_l_buy[a] = CLUSTERING_OUTPUTS.representative_l_buy[b]
    /\ CLUSTERING_OUTPUTS.representative_l_sell[a] = CLUSTERING_OUTPUTS.representative_l_sell[b]

\* the example: one representative day "0" of 24 steps standing for two days
OneDayForTwo ==
    /\ DOMAIN CLUSTERING_OUTPUTS.cluster_nr_days = {"0"}
    /\ CLUSTERING_OUTPUTS.cluster_nr_days["0"] = 2
    /\ \A m \in DOMAIN CLUSTERING_OUTPUTS.representative_e_c :
          Len(CLUSTERING_OUTPUTS.representative_e_c[m]["0"]) = 24

\* the objective of the result recomputed from the reported energies, every step
\* of the representative day counted once
UnweightedDaySum ==
    SumOver([m \in Meters |->
                SumSeq([t \in Steps |->
                    ( outcome.value.e_consumed[m][t] * backpack.meters[m].l_buy[t]
                      - outcome.value.e_sur_retail[m][t] * backpack.meters[m].l_sell[t]
                      + outcome.value.e_alc[m][t] * backpack.l_grid[t] ) * backpack.delta_t])],
            Meters)

\* the last call solved the clustered example to an optimal result
ClusterSolved == ReturnedOptimal /\ bp_id # <<>> /\ bp_id[1] = "cluster"

\* the two meters are treated alike in the backpack and the day's sum is scaled
AlikeAndScaled ==
    /\ SameProfiles("CPE#1", "CPE#3")
    /\ OneDayForTwo
    /\ backpack.meters["CPE#1"] = backpack.meters["CPE#3"]
    /\ outcome.value.obj_value = CLUSTERING_OUTPUTS.cluster_nr_days["0"] * UnweightedDaySum

\* the result allocates the same energies to and from the two meters
SameAllocations ==
    \A t \in Steps :
        /\ outcome.value.e_alc["CPE#1"][t] = outcome.value.e_alc["CPE#3"][t]
        /\ outcome.value.e_sale_pool["CPE#1"][t] = outcome.value.e_sale_pool["CPE#3"][t]

\* the objective terms of the two meters are equal
TermsEqual == outcome.value.c_ind2pool["CPE#1"] = outcome.value.c_ind2pool["CPE#3"]

=============================================================================
